---- MODULE Spec2Model ----
(***************************************************************************)
(* bluetray: a tray utility that lists the paired Bluetooth devices in a   *)
(* menu and connects to the selected one (src/src/main.rs).                *)
(*                                                                         *)
(* The model follows main(): discovery and menu construction, then the     *)
(* event loop closure, which handles one event at a time.  A device        *)
(* selection locks the ConnectionManager and calls connect_device inline;  *)
(* connect_to_bluetooth_device is a sequence of fallible platform calls,   *)
(* each of which is one step of the model, so that events sent by the tray *)
(* while the loop thread is inside the sequence are part of the state.     *)
(***************************************************************************)
EXTENDS Integers, Sequences, FiniteSets, TLC

VARIABLES
    phase,               \* where main() is: start, discovered, built, running, exited, panicked
    bluetooth_devices,   \* main.rs:81  the discovered list, in platform order
    quit_id,             \* main.rs:78  quit_i.id()
    menu_counter,        \* the menu subsystem's id counter (MenuItem::new takes the next id)
    device_items,        \* main.rs:85  the menu item ids, one per discovered device
    device_map,          \* main.rs:84  menu item id -> device id
    about_id,            \* main.rs:102 the id of the predefined About item
    active_connections,  \* main.rs:24  device id -> StreamSocket
    sockets,             \* the StreamSocket objects that are alive (created, not yet dropped)
    socket_counter,      \* the next StreamSocket object StreamSocket::new() yields
    mutex,               \* main.rs:63  TRUE while the Mutex<ConnectionManager> is locked
    conn,                \* the connect sequence the loop thread is inside, or NoConn
    control_flow,        \* main.rs:126 the loop's ControlFlow
    tray_icon,           \* main.rs:121 TRUE when tray_icon is Some
    queue,               \* events sent through the proxy (main.rs:68, 74), not yet handled
    stdout,              \* the lines the last step printed
    result,              \* what the last ConnectionManager call returned
    platform_calls       \* device id -> number of connect_to_bluetooth_device invocations

vars == <<phase, bluetooth_devices, quit_id, menu_counter, device_items, device_map,
          about_id, active_connections, sockets, socket_counter, mutex, conn,
          control_flow, tray_icon, queue, stdout, result, platform_calls>>

(***************************************************************************)
(* Bounds of the model.                                                    *)
(***************************************************************************)
DeviceIds == {"A1", "B2"}
MaxQueue == 2
MaxCalls == 3

(***************************************************************************)
(* HashMap operations used by the program.                                 *)
(***************************************************************************)
EmptyMap == [k \in {} |-> 0]

\* Mutant: the already-connected check never finds the key.
contains_key_never(m, k) == FALSE

contains_key(m, k) == k \in DOMAIN m

insert(m, k, v) == [x \in DOMAIN m \cup {k} |-> IF x = k THEN v ELSE m[x]]

\* Mutant: the whole map is cleared.
remove_clear(m, k) == [x \in {} |-> 0]

\* Mutant: nothing is removed.
remove_none(m, k) == m

remove(m, k) == [x \in DOMAIN m \ {k} |-> m[x]]

Range(m) == {m[k] : k \in DOMAIN m}

\* The value a HashMap call hands back and the caller lets go out of scope.
Replaced(m, k) == IF k \in DOMAIN m THEN {m[k]} ELSE {}

\* Mutant: a socket that goes out of scope stays open.
DropSockets_leak(live, dropped) == live

\* A StreamSocket going out of scope is released.
DropSockets(live, dropped) == live \ dropped

\* Mutant: the lock excludes no one.
LockFree_always(m) == TRUE

\* Mutex::lock: the caller gets the guard when no one holds it.
LockFree(m) == ~m

\* Mutant: the entry is stored before the outcome is known.
StoreConnection_always(m, d, socket, ok) == insert(m, d, socket)

\* Mutant: the registry is replaced by the new entry.
StoreConnection_only(m, d, socket, ok) == IF ok THEN [x \in {d} |-> socket] ELSE m

\* connect_device, main.rs:44-47: `?` returns the error before the insertion;
\* only a socket that connect_to_bluetooth_device returned is stored.
StoreConnection(m, d, socket, ok) == IF ok THEN insert(m, d, socket) ELSE m

\* Mutant: the closure unwraps the result of connect_device.
AfterConnectError_unwrap(ph) == "panicked"

\* main.rs:157-159: the closure prints the error and goes on.
AfterConnectError(ph) == ph

\* Mutant: an id that is no key resolves to some device of the map.
Lookup_any(map, id) == IF id \in DOMAIN map THEN {map[id]} ELSE Range(map)

\* Mutant: a key resolves to another device id than the one stored for it.
Lookup_other(map, id) ==
    IF id \in DOMAIN map THEN {CHOOSE d \in DeviceIds : d # map[id]} ELSE {}

\* main.rs:154: device_map.get(&event.id), Some(device id) or None.
Lookup(map, id) == IF id \in DOMAIN map THEN {map[id]} ELSE {}

\* Mutant: a failed platform call is made again.
AfterFailure_retry(c) == c

\* main.rs:178-185: `?` leaves connect_to_bluetooth_device at the first
\* failure; no later call of the sequence is made.
AfterFailure(c) == [dev |-> "", step |-> 0, socket |-> 0]

\* Mutant: the guard outlives a call that failed.
GuardDropped_leak(m, ok) == IF ok THEN FALSE ELSE m

\* main.rs:156-160: `manager` goes out of scope when the branch ends,
\* whatever connect_device returned.
GuardDropped(m, ok) == FALSE

(***************************************************************************)
(* Menu construction.                                                      *)
(***************************************************************************)
\* MenuItem::new: the item takes the counter's value as its id.
MenuItemNew(counter) == counter

\* Mutant: a device without a name is given a label and the menu is built.
AllNamed_fallback(devs) == TRUE

\* Every device has a name: Name().expect(..) does not panic.
AllNamed(devs) == \A i \in 1..Len(devs) : devs[i].named

RECURSIVE DeviceItems(_, _)
DeviceItems(devs, counter) ==
    IF devs = <<>> THEN <<>>
    ELSE <<MenuItemNew(counter)>> \o DeviceItems(Tail(devs), counter + 1)

\* Mutant: every item is mapped to the first device.
DeviceMap_first(devs, counter, map) ==
    [i \in counter..(counter + Len(devs) - 1) |-> devs[1].id]

RECURSIVE DeviceMap(_, _, _)
DeviceMap(devs, counter, map) ==
    IF devs = <<>> THEN map
    ELSE DeviceMap(Tail(devs), counter + 1,
                   insert(map, MenuItemNew(counter), Head(devs).id))

\* The lists the platform can report: distinct devices, each named or not.
Injective(s) ==
    \A i, j \in 1..Len(s) : i # j => s[i].id # s[j].id

DeviceLists ==
    LET Desc == [id : DeviceIds, named : BOOLEAN]
        UpTo == {<<>>} \cup {<<a>> : a \in Desc} \cup {<<a, b>> : a \in Desc, b \in Desc}
    IN {s \in UpTo : Injective(s)}

(***************************************************************************)
(* The connect sequence of connect_to_bluetooth_device.                    *)
(***************************************************************************)
ConnectSteps ==
    << "FromIdAsync",              \* 178 resolve the device by id
       "GetRfcommServicesAsync",   \* 179 enumerate its RFCOMM services
       "GetAt",                    \* 179 select the first service
       "StreamSocket_new",         \* 180 create the socket
       "ConnectionHostName",       \* 181 read the service's host and service name
       "ConnectAsync",             \* 182 open the socket
       "Name" >>                   \* 185 read the device name for the log line

NSteps == Len(ConnectSteps)
CreateStep == 4
OpenStep == 6

NoConn == [dev |-> "", step |-> 0, socket |-> 0]
NoResult == [op |-> "", dev |-> "", val |-> ""]

Line(msg, arg) == [msg |-> msg, arg |-> arg]

TrayEvent == [kind |-> "tray", id |-> 0]
MenuEvent(id) == [kind |-> "menu", id |-> id]

TotalCalls == LET RECURSIVE Sum(_)
                  Sum(S) == IF S = {} THEN 0
                            ELSE LET d == CHOOSE x \in S : TRUE
                                 IN platform_calls[d] + Sum(S \ {d})
              IN Sum(DeviceIds)

\* Device selections waiting in the queue.
QueuedSelections ==
    Cardinality({i \in 1..Len(queue) :
                    queue[i].kind = "menu" /\ queue[i].id \in DOMAIN device_map})

\* ControlFlow::Exit is sticky: once set, an assignment leaves it Exit.
SetControlFlow(cf, new) == IF cf = "Exit" THEN "Exit" ELSE new

(***************************************************************************)
(* Init: main.rs:60-78, up to the creation of the Quit item.               *)
(***************************************************************************)
Init ==
    /\ phase = "start"
    /\ bluetooth_devices = <<>>
    /\ quit_id = MenuItemNew(1)
    /\ menu_counter = 2
    /\ device_items = <<>>
    /\ device_map = EmptyMap
    /\ about_id = 0
    /\ active_connections = EmptyMap
    /\ sockets = {}
    /\ socket_counter = 1
    /\ mutex = FALSE
    /\ conn = NoConn
    /\ control_flow = "Wait"
    /\ tray_icon = FALSE
    /\ queue = <<>>
    /\ stdout = <<>>
    /\ result = NoResult
    /\ platform_calls = [d \in DeviceIds |-> 0]

registry_vars == <<active_connections, sockets, socket_counter, mutex, conn, result,
                   platform_calls>>
menu_vars == <<bluetooth_devices, quit_id, menu_counter, device_items, device_map, about_id>>

(***************************************************************************)
(* Startup.                                                                *)
(***************************************************************************)
\* main.rs:81, 168-174: the platform query succeeds with a list, or fails
\* and unwrap() panics.
get_paired_bluetooth_devices(ok, devs) ==
    /\ phase = "start"
    /\ IF ok
       THEN /\ phase' = "discovered"
            /\ bluetooth_devices' = devs
       ELSE /\ phase' = "panicked"
            /\ UNCHANGED bluetooth_devices
    /\ UNCHANGED <<quit_id, menu_counter, device_items, device_map, about_id,
                   control_flow, tray_icon, queue, stdout>>
    /\ UNCHANGED registry_vars

\* main.rs:84-119: one menu item per device, then the About item.
BuildMenu ==
    /\ phase = "discovered"
    /\ IF AllNamed(bluetooth_devices)
       THEN /\ phase' = "built"
            /\ device_items' = DeviceItems(bluetooth_devices, menu_counter)
            /\ device_map' = DeviceMap(bluetooth_devices, menu_counter, EmptyMap)
            /\ about_id' = MenuItemNew(menu_counter + Len(bluetooth_devices))
            /\ menu_counter' = menu_counter + Len(bluetooth_devices) + 1
       ELSE /\ phase' = "panicked"
            /\ UNCHANGED <<device_items, device_map, about_id, menu_counter>>
    /\ UNCHANGED <<bluetooth_devices, quit_id, control_flow, tray_icon, queue, stdout>>
    /\ UNCHANGED registry_vars

(***************************************************************************)
(* The event loop closure, main.rs:125-165.                                *)
(***************************************************************************)
\* main.rs:129-142: StartCause::Init builds the tray icon; build().unwrap()
\* panics when the platform refuses.
HandleInit(ok) ==
    /\ phase = "built"
    /\ IF ok
       THEN /\ phase' = "running"
            /\ tray_icon' = TRUE
            /\ control_flow' = SetControlFlow(control_flow, "Wait")
       ELSE /\ phase' = "panicked"
            /\ UNCHANGED <<tray_icon, control_flow>>
    /\ UNCHANGED <<queue, stdout>>
    /\ UNCHANGED menu_vars
    /\ UNCHANGED registry_vars

\* main.rs:67-75: the tray and the menu send their events through the proxy.
SendEvent(e) ==
    /\ phase = "running"
    /\ tray_icon
    /\ Len(queue) < MaxQueue
    /\ (e.kind = "menu" /\ e.id \in DOMAIN device_map)
          => TotalCalls + QueuedSelections < MaxCalls
    /\ queue' = Append(queue, e)
    /\ UNCHANGED <<phase, control_flow, tray_icon, stdout>>
    /\ UNCHANGED menu_vars
    /\ UNCHANGED registry_vars

\* The loop thread is between two invocations of the closure with an event waiting.
LoopReady ==
    /\ phase = "running"
    /\ conn = NoConn
    /\ queue # <<>>

\* main.rs:144-146
HandleTrayIconEvent ==
    /\ LoopReady
    /\ Head(queue).kind = "tray"
    /\ queue' = Tail(queue)
    /\ control_flow' = SetControlFlow(control_flow, "Wait")
    /\ stdout' = <<Line("TrayIconEvent", "")>>
    /\ UNCHANGED <<phase, tray_icon>>
    /\ UNCHANGED menu_vars
    /\ UNCHANGED registry_vars

\* main.rs:151-153
HandleQuit ==
    /\ LoopReady
    /\ Head(queue).kind = "menu"
    /\ Head(queue).id = quit_id
    /\ queue' = Tail(queue)
    /\ tray_icon' = FALSE
    /\ control_flow' = SetControlFlow(SetControlFlow(control_flow, "Wait"), "Exit")
    /\ stdout' = <<Line("MenuEvent", "")>>
    /\ UNCHANGED phase
    /\ UNCHANGED menu_vars
    /\ UNCHANGED registry_vars

\* main.rs:154-160 with connect_device, main.rs:34-44: the selection of a
\* device locks the manager; an id that is already a key returns Ok at once,
\* any other enters connect_to_bluetooth_device with the lock held.
HandleDevice(d) ==
    /\ LoopReady
    /\ Head(queue).kind = "menu"
    /\ Head(queue).id # quit_id
    /\ d \in Lookup(device_map, Head(queue).id)
    /\ LockFree(mutex)
    /\ queue' = Tail(queue)
    /\ control_flow' = SetControlFlow(control_flow, "Wait")
    /\ IF contains_key(active_connections, d)
       THEN /\ stdout' = <<Line("MenuEvent", ""), Line("Device already connected", d)>>
            /\ result' = [op |-> "connect", dev |-> d, val |-> "Ok"]
            /\ UNCHANGED <<mutex, conn, platform_calls>>
       ELSE /\ stdout' = <<Line("MenuEvent", ""), Line("Attempting to connect", d)>>
            /\ mutex' = TRUE
            /\ conn' = [dev |-> d, step |-> 1, socket |-> 0]
            /\ platform_calls' = [platform_calls EXCEPT ![d] = @ + 1]
            /\ UNCHANGED result
    /\ UNCHANGED <<phase, tray_icon, active_connections, sockets, socket_counter>>
    /\ UNCHANGED menu_vars

\* main.rs:154, 163: an id that is neither the Quit item's nor a key of device_map.
HandleOther ==
    /\ LoopReady
    /\ Head(queue).kind = "menu"
    /\ Head(queue).id # quit_id
    /\ Lookup(device_map, Head(queue).id) = {}
    /\ queue' = Tail(queue)
    /\ control_flow' = SetControlFlow(control_flow, "Wait")
    /\ stdout' = <<Line("MenuEvent", "")>>
    /\ UNCHANGED <<phase, tray_icon>>
    /\ UNCHANGED menu_vars
    /\ UNCHANGED registry_vars

\* main.rs:176-188 and 44-50, 157-159: the next platform call of the sequence
\* returns.  A failure leaves the function through `?`: the socket, if one was
\* created, goes out of scope, connect_device returns the error, the closure
\* prints it and the guard is dropped.  After the last call the socket is
\* stored in the registry.
PlatformStep(ok) ==
    /\ phase = "running"
    /\ conn # NoConn
    /\ IF ~ok
       THEN /\ active_connections' =
                  StoreConnection(active_connections, conn.dev, conn.socket, FALSE)
            /\ sockets' = DropSockets(sockets, {conn.socket})
            /\ result' = [op |-> "connect", dev |-> conn.dev, val |-> "Err"]
            /\ stdout' = <<Line("Failed to connect to device", conn.dev)>>
            /\ conn' = AfterFailure(conn)
            /\ mutex' = GuardDropped(mutex, FALSE)
            /\ phase' = AfterConnectError(phase)
            /\ UNCHANGED socket_counter
       ELSE IF conn.step = CreateStep
       THEN /\ sockets' = sockets \cup {socket_counter}
            /\ socket_counter' = socket_counter + 1
            /\ conn' = [conn EXCEPT !.step = @ + 1, !.socket = socket_counter]
            /\ stdout' = <<>>
            /\ UNCHANGED <<phase, active_connections, result, mutex>>
       ELSE IF conn.step < NSteps
       THEN /\ conn' = [conn EXCEPT !.step = @ + 1]
            /\ stdout' = IF conn.step + 1 = OpenStep
                         THEN <<Line("Connecting to device", conn.dev)>>
                         ELSE <<>>
            /\ UNCHANGED <<phase, active_connections, sockets, socket_counter, result,
                           mutex>>
       ELSE /\ active_connections' =
                  StoreConnection(active_connections, conn.dev, conn.socket, TRUE)
            /\ sockets' = DropSockets(sockets, Replaced(active_connections, conn.dev))
            /\ result' = [op |-> "connect", dev |-> conn.dev, val |-> "Ok"]
            /\ stdout' = <<Line("Connected to device", conn.dev),
                           Line("Connection stored", conn.dev)>>
            /\ conn' = NoConn
            /\ mutex' = GuardDropped(mutex, TRUE)
            /\ UNCHANGED <<phase, socket_counter>>
    /\ UNCHANGED <<control_flow, tray_icon, queue, platform_calls>>
    /\ UNCHANGED menu_vars

\* main.rs:125, 165: with the control flow at Exit and the closure returned,
\* run() ends the process.  run() never returns to main, so the Arc that main
\* holds (main.rs:63) is never dropped and no destructor of the registry runs.
LoopExit ==
    /\ phase = "running"
    /\ conn = NoConn
    /\ control_flow = "Exit"
    /\ phase' = "exited"
    /\ UNCHANGED <<control_flow, tray_icon, queue, stdout>>
    /\ UNCHANGED menu_vars
    /\ UNCHANGED registry_vars

\* main.rs:53-55, called by a holder of the lock: the entry is removed and the
\* socket handed back goes out of scope at the end of the statement.
disconnect_device(d) ==
    /\ phase = "running"
    /\ LockFree(mutex)
    /\ active_connections' = remove(active_connections, d)
    /\ sockets' = DropSockets(sockets, Replaced(active_connections, d))
    /\ result' = [op |-> "disconnect", dev |-> d,
                  val |-> IF Replaced(active_connections, d) # {} THEN "true" ELSE "false"]
    /\ UNCHANGED <<socket_counter, mutex, conn, platform_calls>>
    /\ UNCHANGED <<phase, control_flow, tray_icon, queue, stdout>>
    /\ UNCHANGED menu_vars

Events == {TrayEvent} \cup {MenuEvent(id) : id \in {quit_id, about_id} \cup DOMAIN device_map}

\* The program as wired: no event calls disconnect_device.
Next ==
    \/ \E ok \in BOOLEAN, devs \in DeviceLists : get_paired_bluetooth_devices(ok, devs)
    \/ BuildMenu
    \/ \E ok \in BOOLEAN : HandleInit(ok)
    \/ \E e \in Events : SendEvent(e)
    \/ HandleTrayIconEvent
    \/ HandleQuit
    \/ \E d \in DeviceIds : HandleDevice(d)
    \/ HandleOther
    \/ \E ok \in BOOLEAN : PlatformStep(ok)
    \/ LoopExit

Spec == Init /\ [][Next]_vars

\* The ConnectionManager with its whole interface in use: besides the events
\* of the program, a caller that holds the lock may call disconnect_device.
NextApi ==
    \/ Next
    \/ \E d \in DeviceIds : disconnect_device(d)

SpecApi == Init /\ [][NextApi]_vars

(***************************************************************************)
(* Properties.                                                             *)
(***************************************************************************)
isConnected(d) == d \in DOMAIN active_connections

\* The step in which the connect sequence for d returns its socket.
ConnectSucceeds(d) == conn.dev = d /\ conn.step = NSteps /\ PlatformStep(TRUE)

\* The step in which the connect sequence for d fails.
ConnectFails(d) == conn.dev = d /\ PlatformStep(FALSE)

\* Every entry other than d's is what it was.
OthersKept(d) ==
    \A e \in DeviceIds \ {d} :
        /\ e \in DOMAIN active_connections' <=> e \in DOMAIN active_connections
        /\ e \in DOMAIN active_connections => active_connections'[e] = active_connections[e]

\* C1: idempotent connect.  A connect(d) on a device that is a key of the
\* registry returns Ok, invokes no platform connect, starts no sequence and
\* leaves the registry and the sockets as they were; and no connect sequence
\* is ever in flight for a device that is in the registry.
C1_IdempotentConnect ==
    /\ [](conn # NoConn => ~isConnected(conn.dev))
    /\ [][\A d \in DeviceIds :
            (HandleDevice(d) /\ isConnected(d))
               => /\ result' = [op |-> "connect", dev |-> d, val |-> "Ok"]
                  /\ platform_calls' = platform_calls
                  /\ conn' = NoConn
                  /\ active_connections' = active_connections
                  /\ sockets' = sockets]_vars

\* A second connect of a connected device has returned: one platform
\* invocation for the device, which is still in the registry.
C1_Witness ==
    \E d \in DeviceIds :
        /\ Len(stdout) = 2
        /\ stdout[2] = Line("Device already connected", d)
        /\ result = [op |-> "connect", dev |-> d, val |-> "Ok"]
        /\ platform_calls[d] = 1
        /\ isConnected(d)

\* C2: no partial state on failure.  Whatever step of the sequence fails,
\* connect(d) returns Err, d is not in the registry afterward, and no step of
\* the call (the check, the platform calls before the failure, the failure)
\* changes the registry.
C2_NoPartialStateOnFailure ==
    [][/\ \A d \in DeviceIds :
            ConnectFails(d)
               => /\ result' = [op |-> "connect", dev |-> d, val |-> "Err"]
                  /\ ~isConnected(d)'
                  /\ active_connections' = active_connections
       /\ (\E d \in DeviceIds : HandleDevice(d))
             => active_connections' = active_connections
       /\ (conn # NoConn /\ conn' # NoConn)
             => active_connections' = active_connections]_vars

\* A connect has failed at the last step of the sequence, with a socket
\* created and opened, while another device is connected.
C2_Witness ==
    \E d \in DeviceIds :
        /\ result = [op |-> "connect", dev |-> d, val |-> "Err"]
        /\ stdout = <<Line("Failed to connect to device", d)>>
        /\ ~isConnected(d)
        /\ socket_counter = 3
        /\ Cardinality(DOMAIN active_connections) = 1

\* C3: the registry invariant, step by step.  A key appears only in the step
\* in which a connect sequence for it succeeds, and that step always adds
\* it; a key disappears only in a disconnect_device of that key, and that
\* call always removes it; an entry that stays keeps its socket.
C3_RegistryInvariant ==
    [][\A d \in DeviceIds :
          /\ (~isConnected(d) /\ isConnected(d)') => ConnectSucceeds(d)
          /\ ConnectSucceeds(d) => isConnected(d)'
          /\ (isConnected(d) /\ ~isConnected(d)') => disconnect_device(d)
          /\ disconnect_device(d) => ~isConnected(d)'
          /\ (isConnected(d) /\ isConnected(d)')
                => active_connections'[d] = active_connections[d]]_vars

\* One device was disconnected while the other stayed connected.
C3_Witness ==
    \E d \in DeviceIds, e \in DeviceIds :
        /\ d # e
        /\ result = [op |-> "disconnect", dev |-> d, val |-> "true"]
        /\ ~isConnected(d)
        /\ isConnected(e)
        /\ platform_calls[d] = 1

\* C4: at most one connect attempt is in flight, under one hold of the lock.
\* A sequence in flight holds the lock and its device is not in the
\* registry; the lock is held only by a sequence in flight; no
\* disconnect_device and no other connect_device runs while one is in
\* flight; and the insertion happens in the step that releases that hold.
C4_OneAttemptInFlight ==
    /\ [](conn # NoConn => mutex /\ ~isConnected(conn.dev))
    /\ [](mutex => conn # NoConn)
    /\ [][/\ conn # NoConn
             => /\ \A d \in DeviceIds : ~disconnect_device(d) /\ ~HandleDevice(d)
                /\ conn' # NoConn => conn'.dev = conn.dev /\ mutex'
          /\ \A d \in DeviceIds :
                (~isConnected(d) /\ isConnected(d)')
                   => mutex /\ conn.dev = d /\ ~mutex']_vars

\* A sequence is in flight while two more selections of the same device wait.
C4_Witness ==
    /\ conn # NoConn
    /\ conn.step = OpenStep
    /\ Len(queue) = 2
    /\ \A i \in 1..2 : queue[i].kind = "menu" /\ queue[i].id \in DOMAIN device_map
                       /\ device_map[queue[i].id] = conn.dev

\* C5: disconnect_device.  On an id that is not a key it returns false and
\* changes nothing; on a key it returns true, removes that entry and its
\* socket and keeps every other entry.
C5_Disconnect ==
    [][\A d \in DeviceIds :
          disconnect_device(d)
             => IF isConnected(d)
                THEN /\ result'.val = "true"
                     /\ ~isConnected(d)'
                     /\ OthersKept(d)
                     /\ sockets' = sockets \ {active_connections[d]}
                ELSE /\ result'.val = "false"
                     /\ active_connections' = active_connections
                     /\ sockets' = sockets]_vars

\* Since its connection was stored a device was disconnected twice, and the
\* second call returned false; the other device is still connected.
C5_Witness ==
    \E d \in DeviceIds, e \in DeviceIds :
        /\ d # e
        /\ Len(stdout) = 2
        /\ stdout[2] = Line("Connection stored", d)
        /\ result = [op |-> "disconnect", dev |-> d, val |-> "false"]
        /\ ~isConnected(d)
        /\ isConnected(e)

\* C6: no leaked transport handles.  Whenever no connect sequence is in
\* flight, the live sockets are exactly the sockets stored in the registry,
\* one per key.
C6_NoLeakedHandles ==
    conn = NoConn
       => /\ sockets = Range(active_connections)
          /\ \A d \in DOMAIN active_connections, e \in DOMAIN active_connections :
                active_connections[d] = active_connections[e] => d = e

\* A sequence failed after its socket was created, another socket was stored
\* and then removed by disconnect_device, and a third is in the registry.
C6_Witness ==
    /\ conn = NoConn
    /\ socket_counter = 4
    /\ Cardinality(sockets) = 1
    /\ result.op = "disconnect"
    /\ result.val = "true"

\* C7: mapping consistency.  Once the menu is built, the item created for
\* the i-th discovered device has an id of its own, different from the Quit
\* item's, which device_map resolves to that device's id; and the step that
\* handles the selection of that item calls connect_device with that id.
C7_MappingConsistency ==
    /\ [](phase \in {"built", "running", "exited"}
            => /\ Len(device_items) = Len(bluetooth_devices)
               /\ DOMAIN device_map = {device_items[i] : i \in 1..Len(device_items)}
               /\ \A i \in 1..Len(device_items) :
                     /\ device_map[device_items[i]] = bluetooth_devices[i].id
                     /\ device_items[i] # quit_id
                     /\ \A j \in 1..Len(device_items) :
                           device_items[i] = device_items[j] => i = j)
    /\ [][\A i \in 1..Len(device_items) :
            (LoopReady /\ Head(queue) = MenuEvent(device_items[i]) /\ queue' = Tail(queue))
               => /\ HandleDevice(bluetooth_devices[i].id)
                  /\ stdout'[2].arg = bluetooth_devices[i].id]_vars

\* With two devices discovered, the selection of the second one's item has
\* started a connect sequence for the second device.
C7_Witness ==
    /\ Len(bluetooth_devices) = 2
    /\ conn.dev = bluetooth_devices[2].id
    /\ stdout = <<Line("MenuEvent", ""), Line("Attempting to connect", bluetooth_devices[2].id)>>

\* C8: a successful connect(d) on a device not in the registry returns Ok
\* and inserts exactly the entry for d, with the socket the sequence opened;
\* every other entry is what it was.
C8_ConnectInsertsOnlyD ==
    [][\A d \in DeviceIds :
          ConnectSucceeds(d)
             => /\ ~isConnected(d)
                /\ isConnected(d)'
                /\ active_connections'[d] = conn.socket
                /\ conn.socket \in sockets'
                /\ result' = [op |-> "connect", dev |-> d, val |-> "Ok"]
                /\ OthersKept(d)]_vars

\* Scenario A: A1 and B2 discovered, A1 selected and connected, B2 not.
C8_Witness ==
    /\ Len(bluetooth_devices) = 2
    /\ result = [op |-> "connect", dev |-> "A1", val |-> "Ok"]
    /\ stdout = <<Line("Connected to device", "A1"), Line("Connection stored", "A1")>>
    /\ isConnected("A1")
    /\ ~isConnected("B2")

\* The closure is handling an event.
HandleEvent ==
    \/ HandleTrayIconEvent
    \/ HandleQuit
    \/ HandleOther
    \/ \E d \in DeviceIds : HandleDevice(d)

\* C9: the application never exits because of a connect failure.  The
\* control flow becomes Exit only in the step that handles the selection of
\* the Quit item; the process ends only with the control flow at Exit; a
\* failed connect changes neither the control flow nor the phase and leaves
\* the loop idle with the lock free; and an idle running loop with an event
\* waiting can always handle it.
C9_NoExitOnConnectFailure ==
    /\ [][/\ (control_flow # "Exit" /\ control_flow' = "Exit") => HandleQuit
          /\ (phase = "running" /\ phase' # "running")
                => phase' = "exited" /\ control_flow = "Exit"
          /\ PlatformStep(FALSE)
                => /\ control_flow' = control_flow
                   /\ phase' = "running"
                   /\ conn' = NoConn
                   /\ ~mutex']_vars
    /\ [](LoopReady => ENABLED HandleEvent)

\* After a failed connect the loop, still waiting, has handled a tray event.
C9_Witness ==
    /\ phase = "running"
    /\ control_flow = "Wait"
    /\ result.val = "Err"
    /\ stdout = <<Line("TrayIconEvent", "")>>

\* C10: the Quit selection and the handles.  The claim: when the process has
\* exited, every socket the registry held has been released.
C10_QuitReleasesHandles ==
    phase = "exited" => sockets = {}

\* The part of C10 that holds: the step that handles a Quit selection sets
\* the control flow to Exit without a fault, whatever the registry holds,
\* and the control flow never leaves Exit, so the signal is given once.
C10_QuitSignalsOnce ==
    [][/\ HandleQuit => control_flow' = "Exit" /\ phase' = "running"
       /\ control_flow = "Exit" => control_flow' = "Exit"]_vars

\* C11: connect is not run on the thread that services the events.  The
\* claim: while a connect sequence is in flight and an event waits in the
\* queue, the loop can handle that event.
C11_ConnectOffLoopThread ==
    (phase = "running" /\ conn # NoConn /\ queue # <<>>) => ENABLED HandleEvent

\* The selection at the head of the queue has an id that is neither the Quit
\* item's nor a key of device_map.
HeadUnrecognized ==
    /\ LoopReady
    /\ Head(queue).kind = "menu"
    /\ Head(queue).id # quit_id
    /\ Head(queue).id \notin DOMAIN device_map

\* C12: an unrecognized selection is ignored.  The step that handles it
\* invokes no platform connect, starts no sequence, takes no lock, leaves
\* the registry and the sockets as they were and the loop running with its
\* control flow and tray icon unchanged; and the loop can always take it.
C12_UnrecognizedIgnored ==
    /\ [][(HeadUnrecognized /\ queue' = Tail(queue))
             => /\ HandleOther
                /\ platform_calls' = platform_calls
                /\ active_connections' = active_connections
                /\ sockets' = sockets
                /\ conn' = NoConn
                /\ ~mutex'
                /\ result' = result
                /\ phase' = "running"
                /\ control_flow' = control_flow
                /\ tray_icon' = tray_icon]_vars
    /\ [](HeadUnrecognized => ENABLED HandleOther)

\* With a device connected, the About item's selection was handled: the loop
\* is still waiting, the icon is there and the device is still connected.
C12_Witness ==
    /\ phase = "running"
    /\ control_flow = "Wait"
    /\ tray_icon
    /\ stdout = <<Line("MenuEvent", "")>>
    /\ active_connections # EmptyMap
    /\ conn = NoConn

\* C13: a failed discovery does not crash.  The claim: the step in which the
\* platform enumeration fails leaves the process alive with an empty device
\* list, on its way to the menu and the event loop.
C13_DiscoveryFailureNoCrash ==
    [][\A devs \in DeviceLists :
          get_paired_bluetooth_devices(FALSE, devs)
             => phase' = "discovered" /\ bluetooth_devices' = <<>>]_vars

\* C14: the order of the platform calls.  A sequence starts at the first
\* call and, while it is in flight, every step takes it to the next call of
\* ConnectSteps, so each call is made at most once and in the fixed order;
\* the socket exists exactly from the call that creates it; a failing call
\* ends the sequence with one error line and an Err result; a failure up to
\* the selection of the first service creates no socket.
C14_StepOrder ==
    /\ [](conn # NoConn
            => /\ conn.step \in 1..NSteps
               /\ conn.socket # 0 <=> conn.step > CreateStep
               /\ conn.socket # 0 => conn.socket \in sockets)
    /\ [][/\ \A d \in DeviceIds :
                (HandleDevice(d) /\ ~isConnected(d))
                   => conn' = [dev |-> d, step |-> 1, socket |-> 0]
          /\ (conn # NoConn /\ conn' # NoConn /\ conn' # conn)
                => conn'.step = conn.step + 1 /\ conn'.dev = conn.dev
          /\ (PlatformStep(TRUE) /\ conn.step < NSteps)
                => conn'.step = conn.step + 1 /\ result' = result
          /\ socket_counter' # socket_counter
                => /\ ConnectSteps[conn.step] = "StreamSocket_new"
                   /\ PlatformStep(TRUE)
          /\ PlatformStep(FALSE)
                => /\ conn' = NoConn
                   /\ result' = [op |-> "connect", dev |-> conn.dev, val |-> "Err"]
                   /\ stdout' = <<Line("Failed to connect to device", conn.dev)>>
                   /\ ConnectSteps[conn.step] \in
                         {"FromIdAsync", "GetRfcommServicesAsync", "GetAt"}
                         => sockets' = sockets /\ socket_counter' = socket_counter
          /\ (conn # NoConn /\ conn' = NoConn /\ result'.val = "Ok")
                => conn.step = NSteps]_vars

\* Two sequences have failed and neither had created a socket, as happens
\* when the device offers no service.
C14_Witness ==
    \E d \in DeviceIds :
        /\ result = [op |-> "connect", dev |-> d, val |-> "Err"]
        /\ stdout = <<Line("Failed to connect to device", d)>>
        /\ platform_calls[d] = 2
        /\ socket_counter = 1
        /\ conn = NoConn

\* The selection at the head of the queue is the one of device d.
HeadSelects(d) ==
    /\ LoopReady
    /\ Head(queue).kind = "menu"
    /\ Head(queue).id # quit_id
    /\ Head(queue).id \in DOMAIN device_map
    /\ device_map[Head(queue).id] = d

\* C15: retry is caller-driven and always possible.  A platform connect is
\* invoked only by the handling of a selection, once per selection of a
\* device that is not in the registry; a failure invokes nothing, ends the
\* sequence and frees the lock; the lock is never held by an idle loop; a
\* waiting selection of d can always be handled; and a sequence that
\* succeeds inserts d whatever failed before.
C15_CallerDrivenRetry ==
    /\ [](conn = NoConn => ~mutex)
    /\ [](\A d \in DeviceIds : HeadSelects(d) => ENABLED HandleDevice(d))
    /\ [][/\ \A d \in DeviceIds :
                (HeadSelects(d) /\ ~isConnected(d) /\ queue' = Tail(queue))
                   => /\ platform_calls' = [platform_calls EXCEPT ![d] = @ + 1]
                      /\ conn' = [dev |-> d, step |-> 1, socket |-> 0]
          /\ platform_calls' # platform_calls => \E d \in DeviceIds : HandleDevice(d)
          /\ PlatformStep(FALSE)
                => /\ platform_calls' = platform_calls
                   /\ conn' = NoConn
                   /\ ~mutex'
                   /\ queue' = queue
          /\ \A d \in DeviceIds : ConnectSucceeds(d) => isConnected(d)']_vars

\* A device is connected by its third attempt, after two that failed.
C15_Witness ==
    \E d \in DeviceIds :
        /\ platform_calls[d] = 3
        /\ isConnected(d)
        /\ result = [op |-> "connect", dev |-> d, val |-> "Ok"]

\* Some discovered device has no name.
SomeUnnamed == \E i \in 1..Len(bluetooth_devices) : ~bluetooth_devices[i].named

\* C16: a device without a name is a hard error.  With such a device in the
\* list the menu construction panics: no item is created for any device, the
\* loop never runs, no event is sent and nothing touches the registry.
C16_UnnamedDeviceIsFatal ==
    /\ [](SomeUnnamed
            => /\ phase \in {"discovered", "panicked"}
               /\ device_items = <<>>
               /\ device_map = EmptyMap
               /\ ~tray_icon
               /\ queue = <<>>
               /\ active_connections = EmptyMap
               /\ result = NoResult
               /\ \A d \in DeviceIds : platform_calls[d] = 0)
    /\ [][(BuildMenu /\ SomeUnnamed) => phase' = "panicked"]_vars

\* Startup has failed on a list of two devices of which the first is named.
C16_Witness ==
    /\ phase = "panicked"
    /\ Len(bluetooth_devices) = 2
    /\ bluetooth_devices[1].named
    /\ ~bluetooth_devices[2].named

\* C17: as wired, the registry only grows.  An entry, once there, stays with
\* its socket in every later state; the size never decreases; a connect
\* sequence succeeds only for a device that is not in the registry, hence at
\* most once per device; and the selection of a connected device invokes
\* nothing.
C17_RegistryOnlyGrows ==
    /\ [](\A d \in DeviceIds : isConnected(d) => conn.dev # d)
    /\ [][/\ \A d \in DeviceIds :
                /\ isConnected(d)
                      => /\ isConnected(d)'
                         /\ active_connections'[d] = active_connections[d]
                /\ ConnectSucceeds(d) => ~isConnected(d)
                /\ (HeadSelects(d) /\ isConnected(d) /\ queue' = Tail(queue))
                      => platform_calls' = platform_calls /\ conn' = NoConn
          /\ Cardinality(DOMAIN active_connections')
                >= Cardinality(DOMAIN active_connections)]_vars

\* Both devices are connected, each by one sequence, the process has exited
\* and the last selection handled was a no-op on a connected device.
C17_Witness ==
    /\ phase = "exited"
    /\ DOMAIN active_connections = DeviceIds
    /\ \A d \in DeviceIds : platform_calls[d] = 1
    /\ Len(stdout) = 2
    /\ stdout[2].msg = "Device already connected"

\* The device ids discovered at startup.
Discovered == {bluetooth_devices[i].id : i \in 1..Len(bluetooth_devices)}

\* C18: the registry holds discovered devices only.  Its keys, the device of
\* a sequence in flight and every device a platform connect was invoked for
\* are ids of the discovered list; its size is at most the length of that
\* list; device_map maps onto exactly the discovered ids once the menu is
\* built; and no event changes device_map or the list.
C18_OnlyDiscoveredDevices ==
    /\ [](/\ DOMAIN active_connections \subseteq Discovered
          /\ Cardinality(DOMAIN active_connections) <= Len(bluetooth_devices)
          /\ conn # NoConn => conn.dev \in Discovered
          /\ \A d \in DeviceIds : platform_calls[d] > 0 => d \in Discovered
          /\ phase \in {"built", "running", "exited"} => Range(device_map) = Discovered)
    /\ [][phase = "running"
             => device_map' = device_map /\ bluetooth_devices' = bluetooth_devices]_vars

\* One device of the two was discovered, and it is connected.
C18_Witness ==
    /\ Len(bluetooth_devices) = 1
    /\ DOMAIN active_connections = Discovered
    /\ conn = NoConn

====
